---- MODULE Spec2Model ----
(***************************************************************************)
(* The Void Serpent: the procedural audio engine (Void Audio Engine.js,    *)
(* class AudioEngine) and the WebGL post-processor (shader.js, class       *)
(* PostProcessor), each as a state machine driven by its public methods    *)
(* and by the browser (timer firings, window size changes).                *)
(*                                                                         *)
(* Units: a volume is an integer number of hundredths (0.8 -> 80), or NaN; *)
(* a gain is an integer number of ten-thousandths (0.3 -> 3000);           *)
(* a frequency is an integer number of hundredths of a hertz;              *)
(* a timer delay is in milliseconds; Math.random() is k / RandDen for      *)
(* k in 0 .. RandDen-1 where its value is used, and a boolean choice where *)
(* it is only compared with a threshold.                                   *)
(***************************************************************************)
EXTENDS Integers, Sequences, FiniteSets, TLC

(* ------------------------------ bounds --------------------------------- *)

\* Stage indices passed to setStage are 0 .. MaxStage.
MaxStage == 8

\* Math.random() takes the values 0/RandDen .. (RandDen-1)/RandDen.
RandDen == 2

\* render(time, ...) is called with time in 0 .. MaxTime.
MaxTime == 1

(* --------------------------- audio: state ------------------------------ *)

VARIABLES
    audioSupported,  \* window.AudioContext || window.webkitAudioContext is defined
    ctx,             \* this.ctx is an AudioContext (FALSE: null)
    masterGain,      \* this.masterGain is a node (FALSE: null)
    reverbNode,      \* this.reverbNode is a node (FALSE: null)
    delayNode,       \* this.delayNode is a node (FALSE: null)
    delayTime,       \* target of delayNode.delayTime, hundredths of a second (0: no node)
    isInitialized,
    isPlaying,
    currentStage,
    timerID,         \* "null" or "handle"
    volumes,         \* [ambient, spawn, eat] -> Num(hundredths) or NaN
    contexts,        \* number of AudioContext objects constructed so far
    timers,          \* number of timeouts pending in the browser
    call             \* what the last operation did on the platform

audioVars == <<audioSupported, ctx, masterGain, reverbNode, delayNode, delayTime,
               isInitialized, isPlaying, currentStage, timerID, volumes,
               contexts, timers, call>>

(* --------------------------- shader: state ----------------------------- *)

VARIABLES
    gl,              \* this.gl is a WebGL context (FALSE: getContext returned null)
    glCanvas,        \* [width, height] of the overlay canvas
    window,          \* [innerWidth, innerHeight] of the browser window
    viewport,        \* [width, height] last given to gl.viewport, or NoViewport
    uniforms,        \* the uniforms last uploaded by render, or NoUniforms
    glCall           \* the last event: the operation, its graphics calls, whether it threw

shaderVars == <<gl, glCanvas, window, viewport, uniforms, glCall>>

vars == <<audioVars, shaderVars>>

(* ------------------------- audio: constants ---------------------------- *)

\* A JavaScript number: a finite value v (in hundredths) or NaN.
Num(v) == [nan |-> FALSE, v |-> v]

NaN == [nan |-> TRUE, v |-> 0]

Channels == {"ambient", "spawn", "eat"}

\* this.scales, in hundredths of a hertz; scales[s+1] is the source's scales[s].
scales ==
    << <<52325, 58733, 65925, 78399, 88000>>,
       <<26163, 29366, 32963, 39200, 44000>>,
       <<19600, 23308, 26163, 31113, 34923>>,
       <<13081, 15556, 18500, 19600, 23308>>,
       <<11000, 12347, 13081, 14683, 16481, 19600>>,
       <<5500, 6541, 6930, 8241, 8731, 9800>>,
       <<4000, 4200, 4500, 4800, 100000>> >>

Random == 0 .. (RandDen - 1)

Stages == 0 .. MaxStage

(* ------------------------ audio: pure functions ------------------------ *)

DigitVal ==
    ("0" :> 0) @@ ("1" :> 1) @@ ("2" :> 2) @@ ("3" :> 3) @@ ("4" :> 4) @@
    ("5" :> 5) @@ ("6" :> 6) @@ ("7" :> 7) @@ ("8" :> 8) @@ ("9" :> 9)

IsDigit(c) == c \in DOMAIN DigitVal

\* The text with its leading white space removed.
RECURSIVE TrimLeft(_)
TrimLeft(s) ==
    IF Len(s) > 0 /\ Head(s) = " " THEN TrimLeft(Tail(s)) ELSE s

\* The longest prefix of s made of decimal digits.
RECURSIVE DigitRun(_)
DigitRun(s) ==
    IF Len(s) > 0 /\ IsDigit(Head(s)) THEN <<Head(s)>> \o DigitRun(Tail(s)) ELSE <<>>

\* The value of a run of digits read as an integer.
RECURSIVE IntVal(_)
IntVal(d) ==
    IF Len(d) = 0 THEN 0 ELSE 10 * IntVal(SubSeq(d, 1, Len(d) - 1)) + DigitVal[d[Len(d)]]

\* A run of fraction digits in hundredths (digits past the second are below
\* the resolution of a volume in this model).
Hundredths(d) ==
    (IF Len(d) >= 1 THEN 10 * DigitVal[d[1]] ELSE 0) +
    (IF Len(d) >= 2 THEN DigitVal[d[2]] ELSE 0)

\* parseFloat of a text (a number argument is first converted to its text):
\* white space, an optional sign, digits, an optional point and digits; what
\* follows is ignored; no digit at all is NaN.
ParseFloat(s) ==
    LET t      == TrimLeft(s)
        signed == Len(t) > 0 /\ Head(t) \in {"+", "-"}
        sign   == IF Len(t) > 0 /\ Head(t) = "-" THEN -1 ELSE 1
        u      == IF signed THEN Tail(t) ELSE t
        ip     == DigitRun(u)
        rest   == SubSeq(u, Len(ip) + 1, Len(u))
        fp     == IF Len(rest) > 0 /\ Head(rest) = "." THEN DigitRun(Tail(rest)) ELSE <<>>
    IN  IF Len(ip) = 0 /\ Len(fp) = 0
        THEN NaN
        ELSE Num(sign * (100 * IntVal(ip) + Hundredths(fp)))

\* this.volumes.hasOwnProperty(type)
HasChannel(type) == type \in Channels

\* A faulty variant: the ambient test written as >= 0.
AmbientAudibleFromZero(vol) == ~vol.nan /\ vol.v >= 0

\* this.volumes.ambient > 0.01
AmbientAudible(vol) == ~vol.nan /\ vol.v > 1

\* this.volumes.spawn < 0.01, this.volumes.eat < 0.01
BelowThreshold(vol) == ~vol.nan /\ vol.v < 1

\* A faulty variant: a stage past the table takes the last scale.
ScaleForClamped(stage) ==
    IF stage >= 0 /\ stage < Len(scales) THEN scales[stage + 1] ELSE scales[Len(scales)]

\* this.scales[this.currentStage] || this.scales[0]
ScaleFor(stage) ==
    IF stage >= 0 /\ stage < Len(scales) THEN scales[stage + 1] ELSE scales[1]

\* scale[Math.floor(Math.random() * scale.length)], Math.random() = k / RandDen
PickFreq(scale, k) == scale[((k * Len(scale)) \div RandDen) + 1]

\* minTime of scheduleNextNote
MinTime(stage) ==
    LET minTime == 2000 - (stage * 300)
    IN  IF minTime < 200 THEN 200 ELSE minTime

\* maxTime of scheduleNextNote
MaxTime_(stage) == 4000 - (stage * 500)

\* Math.random() * (maxTime - minTime) + minTime, rounded down to a millisecond
Delay(stage, k) ==
    ((k * (MaxTime_(stage) - MinTime(stage))) \div RandDen) + MinTime(stage)

\* An oscillator created by an operation: role "voice" or "modulator", its
\* waveform, base frequency, peak gain of its envelope, whether a later jump
\* of the frequency to ten times its value is scheduled, and whether start()
\* was reached.
Osc(role, type, freq, peak, glitch, started) ==
    [role |-> role, type |-> type, freq |-> freq, peak |-> peak,
     glitch |-> glitch, started |-> started]

\* coefficient * vol as a gain (ten-thousandths), for a finite vol
Gain(coef, vol) == coef * vol.v

\* triggerAmbientSound with a context: the oscillators it creates, and whether
\* it throws (an AudioParam method given NaN throws a TypeError).
\* kf: the Math.random() draw for the pitch; saw: Math.random() > 0.5 (the
\* waveform); glitch: Math.random() < 0.2 (the frequency jump).
AmbientSources(stage, vol, kf, saw, glitch) ==
    LET freq == PickFreq(ScaleFor(stage), kf)
        ok   == ~vol.nan
    IN  IF stage < 2 THEN
            [sources |-> << Osc("voice", "sine", freq, IF ok THEN Gain(30, vol) ELSE 0,
                                FALSE, ok) >>,
             threw |-> ~ok]
        ELSE IF stage < 5 THEN
            [sources |-> << Osc("voice", "triangle", freq, IF ok THEN Gain(20, vol) ELSE 0,
                                FALSE, ok),
                            Osc("modulator", "sawtooth", (freq * 3) \div 2, 2000000,
                                FALSE, TRUE) >>,
             threw |-> ~ok]
        ELSE
            [sources |-> << Osc("voice",
                                IF saw THEN "sawtooth" ELSE "square",
                                freq, IF ok THEN Gain(15, vol) ELSE 0,
                                ok /\ glitch, ok) >>,
             threw |-> ~ok]

NoSources == [sources |-> << >>, threw |-> FALSE]

\* triggerAmbientSound
TriggerAmbientSound(hasCtx, stage, vol, kf, saw, glitch) ==
    IF ~hasCtx THEN NoSources ELSE AmbientSources(stage, vol, kf, saw, glitch)

\* A faulty variant: setTimeout moved inside the volume test.
ScheduleNextNoteWhenAudible(playing, hasCtx, stage, vol, kd, kf, saw, glitch) ==
    IF ~playing \/ ~AmbientAudible(vol)
    THEN [sources |-> << >>, timeouts |-> {}, threw |-> FALSE]
    ELSE LET ev == TriggerAmbientSound(hasCtx, stage, vol, kf, saw, glitch)
         IN  [sources  |-> ev.sources,
              timeouts |-> IF ev.threw THEN {} ELSE {Delay(stage, kd)},
              threw    |-> ev.threw]

\* scheduleNextNote: the oscillators created, the delays handed to setTimeout
\* and whether it throws before reaching setTimeout.
ScheduleNextNote(playing, hasCtx, stage, vol, kd, kf, saw, glitch) ==
    IF ~playing THEN [sources |-> << >>, timeouts |-> {}, threw |-> FALSE]
    ELSE LET ev == IF AmbientAudible(vol)
                   THEN TriggerAmbientSound(hasCtx, stage, vol, kf, saw, glitch)
                   ELSE NoSources
         IN  [sources  |-> ev.sources,
              timeouts |-> IF ev.threw THEN {} ELSE {Delay(stage, kd)},
              threw    |-> ev.threw]

\* The random choices <<kf, saw, glitch>> that triggerAmbientSound makes (0 and
\* FALSE stand for a choice that is not made): none without a context, the
\* pitch alone below stage 5, the pitch, the waveform and the glitch from
\* stage 5 on.
TriggerDraws(hasCtx, stage) ==
    IF ~hasCtx THEN { <<0, FALSE, FALSE>> }
    ELSE IF stage < 5 THEN { <<kf, FALSE, FALSE>> : kf \in Random }
    ELSE Random \X BOOLEAN \X BOOLEAN

\* The random choices that scheduleNextNote makes beside the draw for its
\* delay: those of triggerAmbientSound when it is called.
ScheduleDraws(playing, hasCtx, stage, vol) ==
    IF playing /\ AmbientAudible(vol)
    THEN TriggerDraws(hasCtx, stage)
    ELSE { <<0, FALSE, FALSE>> }

\* What triggerAmbientSound can do, over its draws of Math.random().
TriggerOutcomes(hasCtx, stage, vol) ==
    { TriggerAmbientSound(hasCtx, stage, vol, d[1], d[2], d[3]) :
        d \in TriggerDraws(hasCtx, stage) }

\* What scheduleNextNote can do with the draw kd for its delay, over the draws
\* of triggerAmbientSound.
ScheduleOutcomes(playing, hasCtx, stage, vol, kd) ==
    { ScheduleNextNote(playing, hasCtx, stage, vol, kd, d[1], d[2], d[3]) :
        d \in ScheduleDraws(playing, hasCtx, stage, vol) }

Call(op, sources, timeouts, threw) ==
    [op |-> op, sources |-> sources, timeouts |-> timeouts, threw |-> threw]

(* --------------------------- audio: actions ---------------------------- *)

\* Texts given to setVolume as value (a slider's value, or a number's text).
VolumeInputs ==
    { <<"0">>, <<"0", ".", "0", "1">>, <<"0", ".", "5">>, <<"1", ".", "5">>, <<"x">> }

\* Channel names given to setVolume as type.
TypeInputs == Channels \cup {"master"}

\* The state after new AudioEngine().
AudioInit ==
    /\ audioSupported \in BOOLEAN
    /\ ctx = FALSE
    /\ masterGain = FALSE
    /\ reverbNode = FALSE
    /\ delayNode = FALSE
    /\ delayTime = 0
    /\ isInitialized = FALSE
    /\ isPlaying = FALSE
    /\ currentStage = 0
    /\ timerID = "null"
    /\ volumes = [c \in Channels |->
                    IF c = "ambient" THEN Num(80) ELSE Num(50)]
    /\ contexts = 0
    /\ timers = 0
    /\ call = Call("constructor", << >>, {}, FALSE)

\* setVolume(type, value)
SetVolume(type, value) ==
    /\ volumes' = IF HasChannel(type)
                  THEN [volumes EXCEPT ![type] = ParseFloat(value)]
                  ELSE volumes
    /\ call' = Call("setVolume", << >>, {}, FALSE)
    /\ UNCHANGED <<audioSupported, ctx, masterGain, reverbNode, delayNode, delayTime,
                   isInitialized, isPlaying, currentStage, timerID, contexts, timers,
                   shaderVars>>

\* setVolume called with any channel name and any value
setVolume ==
    \E type \in TypeInputs, value \in VolumeInputs : SetVolume(type, value)

\* setVolume called for the ambient channel (the ambient slider)
setAmbientVolume ==
    \E value \in VolumeInputs : SetVolume("ambient", value)

\* A faulty variant: init without its guard.
NeverInitialized == FALSE

\* if (this.isInitialized) return;
AlreadyInitialized == isInitialized

\* init()
init ==
    IF AlreadyInitialized THEN
        /\ call' = Call("init", << >>, {}, FALSE)
        /\ UNCHANGED <<audioSupported, ctx, masterGain, reverbNode, delayNode, delayTime,
                       isInitialized, isPlaying, currentStage, timerID, volumes,
                       contexts, timers, shaderVars>>
    ELSE IF ~audioSupported THEN
        \* new AudioContext() with AudioContext undefined throws a TypeError
        /\ call' = Call("init", << >>, {}, TRUE)
        /\ UNCHANGED <<audioSupported, ctx, masterGain, reverbNode, delayNode, delayTime,
                       isInitialized, isPlaying, currentStage, timerID, volumes,
                       contexts, timers, shaderVars>>
    ELSE
        \E kd \in Random :
            \E r \in ScheduleOutcomes(TRUE, TRUE, currentStage, volumes["ambient"], kd) :
                /\ ctx' = TRUE
                /\ contexts' = contexts + 1
                /\ masterGain' = TRUE
                /\ reverbNode' = TRUE
                /\ delayNode' = TRUE
                /\ delayTime' = 40
                /\ isInitialized' = TRUE
                /\ isPlaying' = TRUE
                /\ timers' = timers + Cardinality(r.timeouts)
                /\ timerID' = IF r.timeouts = {} THEN timerID ELSE "handle"
                /\ call' = Call("init", r.sources, r.timeouts, r.threw)
                /\ UNCHANGED <<audioSupported, currentStage, volumes, shaderVars>>

\* The browser runs the pending timeout: () => this.scheduleNextNote()
TimerFire ==
    /\ timers > 0
    /\ \E kd \in Random :
         \E r \in ScheduleOutcomes(isPlaying, ctx, currentStage, volumes["ambient"], kd) :
           /\ timers' = (timers - 1) + Cardinality(r.timeouts)
           /\ timerID' = IF r.timeouts = {} THEN timerID ELSE "handle"
           /\ call' = Call("timer", r.sources, r.timeouts, r.threw)
    /\ UNCHANGED <<audioSupported, ctx, masterGain, reverbNode, delayNode, delayTime,
                   isInitialized, isPlaying, currentStage, volumes, contexts,
                   shaderVars>>

\* triggerAmbientSound() called directly
triggerAmbientSound ==
    /\ \E r \in TriggerOutcomes(ctx, currentStage, volumes["ambient"]) :
           call' = Call("triggerAmbientSound", r.sources, {}, r.threw)
    /\ UNCHANGED <<audioSupported, ctx, masterGain, reverbNode, delayNode, delayTime,
                   isInitialized, isPlaying, currentStage, timerID, volumes,
                   contexts, timers, shaderVars>>

\* setStage(idx)
setStage ==
    \E idx \in Stages :
        /\ currentStage' = idx
        /\ delayTime' = IF delayNode THEN 30 + (idx * 5) ELSE delayTime
        /\ call' = Call("setStage", << >>, {}, FALSE)
        /\ UNCHANGED <<audioSupported, ctx, masterGain, reverbNode, delayNode,
                       isInitialized, isPlaying, timerID, volumes, contexts, timers,
                       shaderVars>>

\* The oscillators of playSpawn and whether it throws.
SpawnSources(hasCtx, vol) ==
    IF ~hasCtx \/ BelowThreshold(vol) THEN NoSources
    ELSE IF vol.nan
         THEN [sources |-> << Osc("voice", "sine", 80000, 0, FALSE, FALSE) >>,
               threw |-> TRUE]
         ELSE [sources |-> << Osc("voice", "sine", 80000, Gain(10, vol), FALSE, TRUE) >>,
               threw |-> FALSE]

\* The oscillators of playEat and whether it throws.
EatSources(hasCtx, vol) ==
    IF ~hasCtx \/ BelowThreshold(vol) THEN NoSources
    ELSE IF vol.nan
         THEN [sources |-> << Osc("voice", "sine", 20000, 0, FALSE, FALSE) >>,
               threw |-> TRUE]
         ELSE [sources |-> << Osc("voice", "sine", 20000, Gain(20, vol), FALSE, TRUE) >>,
               threw |-> FALSE]

\* A faulty variant: playDescent without its context test (this.ctx.currentTime on null
\* is a TypeError).
DescentSourcesUnguarded(hasCtx) ==
    [sources |-> IF hasCtx
                 THEN << Osc("voice", "triangle", 12000, 10000, FALSE, TRUE),
                         Osc("voice", "sawtooth", 80000, 3000, FALSE, TRUE) >>
                 ELSE << >>,
     threw |-> ~hasCtx]

\* A faulty variant: playDescent following the ambient volume.
DescentSourcesFollowAmbient(hasCtx) ==
    IF ~hasCtx THEN NoSources
    ELSE [sources |-> << Osc("voice", "triangle", 12000,
                             Gain(100, volumes["ambient"]), FALSE, TRUE),
                         Osc("voice", "sawtooth", 80000,
                             Gain(30, volumes["ambient"]), FALSE, TRUE) >>,
          threw |-> FALSE]

\* The oscillators of playDescent.
DescentSources(hasCtx) ==
    IF ~hasCtx THEN NoSources
    ELSE [sources |-> << Osc("voice", "triangle", 12000, 10000, FALSE, TRUE),
                         Osc("voice", "sawtooth", 80000, 3000, FALSE, TRUE) >>,
          threw |-> FALSE]

\* playSpawn()
playSpawn ==
    /\ LET r == SpawnSources(ctx, volumes["spawn"])
       IN  call' = Call("playSpawn", r.sources, {}, r.threw)
    /\ UNCHANGED <<audioSupported, ctx, masterGain, reverbNode, delayNode, delayTime,
                   isInitialized, isPlaying, currentStage, timerID, volumes,
                   contexts, timers, shaderVars>>

\* playEat()
playEat ==
    /\ LET r == EatSources(ctx, volumes["eat"])
       IN  call' = Call("playEat", r.sources, {}, r.threw)
    /\ UNCHANGED <<audioSupported, ctx, masterGain, reverbNode, delayNode, delayTime,
                   isInitialized, isPlaying, currentStage, timerID, volumes,
                   contexts, timers, shaderVars>>

\* playDescent()
playDescent ==
    /\ LET r == DescentSources(ctx)
       IN  call' = Call("playDescent", r.sources, {}, r.threw)
    /\ UNCHANGED <<audioSupported, ctx, masterGain, reverbNode, delayNode, delayTime,
                   isInitialized, isPlaying, currentStage, timerID, volumes,
                   contexts, timers, shaderVars>>

\* The operations that drive the ambient generator.
AmbientNext ==
    \/ setAmbientVolume
    \/ init
    \/ TimerFire
    \/ setStage

AudioNext ==
    \/ setVolume
    \/ init
    \/ TimerFire
    \/ triggerAmbientSound
    \/ setStage
    \/ playSpawn
    \/ playEat
    \/ playDescent

(* -------------------------- shader: actions ---------------------------- *)

\* Inner sizes the browser window takes.
WinSizes == { [width |-> w, height |-> h] : w \in {320, 800}, h \in {240, 600} }

\* The size of a canvas element as created.
DefaultCanvas == [width |-> 300, height |-> 150]

\* Distortion intensities given to render, in tenths.
Intensities == {0, 5, 10}

NoUniforms == << >>

GlCall(op, calls, threw) == [op |-> op, calls |-> calls, threw |-> threw]

\* A faulty variant: the canvas height taken from the window's width.
ResizeSquare(hasGl, win, vp) ==
    [canvas   |-> [width |-> win.width, height |-> win.width],
     viewport |-> IF hasGl THEN {[width |-> win.width, height |-> win.width]} ELSE vp,
     calls    |-> IF hasGl THEN <<"viewport">> ELSE << >>,
     threw    |-> ~hasGl]

\* resize(): the canvas size, the viewport, the graphics calls made and whether
\* it throws (this.gl.viewport on a null this.gl is a TypeError).
Resize(hasGl, win, vp) ==
    [canvas   |-> [width |-> win.width, height |-> win.height],
     viewport |-> IF hasGl THEN {[width |-> win.width, height |-> win.height]} ELSE vp,
     calls    |-> IF hasGl THEN <<"viewport">> ELSE << >>,
     threw    |-> ~hasGl]

\* The graphics calls of render, in order.
RenderCalls ==
    <<"bindTexture", "texImage2D", "useProgram", "enableVertexAttribArray",
      "bindBuffer", "vertexAttribPointer", "uniform1i", "uniform1f", "uniform2f",
      "uniform1f", "drawArrays">>

\* The state after new PostProcessor(sourceCanvas): getContext('webgl') gives a
\* context or null; with a context the constructor calls resize().
ShaderInit ==
    \E hasGl \in BOOLEAN, win \in WinSizes :
        LET r == Resize(hasGl, win, {})
        IN  /\ window = win
            /\ gl = hasGl
            /\ glCanvas = IF hasGl THEN r.canvas ELSE DefaultCanvas
            /\ viewport = IF hasGl THEN r.viewport ELSE {}
            /\ uniforms = NoUniforms
            /\ glCall = GlCall("constructor", IF hasGl THEN r.calls ELSE << >>, FALSE)

\* The user resizes the browser window.
WindowResize ==
    /\ \E win \in WinSizes : window' = win
    /\ glCall' = GlCall("window", << >>, FALSE)
    /\ UNCHANGED <<gl, glCanvas, viewport, uniforms, audioVars>>

\* resize()
resize ==
    /\ LET r == Resize(gl, window, viewport)
       IN  /\ glCanvas' = r.canvas
           /\ viewport' = r.viewport
           /\ glCall' = GlCall("resize", r.calls, r.threw)
    /\ UNCHANGED <<gl, window, uniforms, audioVars>>

\* render(time, intensity)
render ==
    /\ \E time \in 0 .. MaxTime, intensity \in Intensities :
           IF ~gl THEN
               /\ uniforms' = uniforms
               /\ glCall' = GlCall("render", << >>, FALSE)
           ELSE
               /\ uniforms' = << [u_image |-> 0, u_time |-> time,
                                  u_resolution |-> glCanvas, u_distortion |-> intensity] >>
               /\ glCall' = GlCall("render", RenderCalls, FALSE)
    /\ UNCHANGED <<gl, glCanvas, window, viewport, audioVars>>

ShaderNext ==
    \/ WindowResize
    \/ resize
    \/ render

(* --------------------------- specifications ---------------------------- *)

\* new AudioEngine() in any browser, beside a post-processor constructed on a
\* 320x240 window with WebGL.
AudioSpecInit ==
    /\ AudioInit
    /\ ShaderInit
    /\ gl
    /\ window = [width |-> 320, height |-> 240]

\* new PostProcessor(sourceCanvas) in any browser and window, beside an audio
\* engine constructed in a browser with the Web Audio API.
ShaderSpecInit ==
    /\ ShaderInit
    /\ AudioInit
    /\ audioSupported

\* The audio engine driven by its callers and by the browser's timer.
AudioSpec == AudioSpecInit /\ [][AudioNext]_vars

\* The ambient generator with timers that fire: a pending timeout is eventually run.
AudioLiveSpec == AudioSpecInit /\ [][AmbientNext]_vars /\ WF_vars(TimerFire)

\* The post-processor driven by its callers and by window size changes.
ShaderSpec == ShaderSpecInit /\ [][ShaderNext]_vars

(* ------------------------------ claims --------------------------------- *)

Range(seq) == { seq[i] : i \in 1 .. Len(seq) }

\* The operations that run scheduleNextNote.
ScheduleOps == {"init", "timer"}

\* The operations that can run triggerAmbientSound.
AmbientOps == ScheduleOps \cup {"triggerAmbientSound"}

\* The oscillator that carries the pitch of an ambient event.
Voice == call.sources[1]

\* C1: an ambient event takes its pitch from the scale of the current stage
\* when the stage is one of 0 .. 6, and from the scale of stage 0 when the
\* stage is 7 or more.
C1_AmbientPitchFromStageScale ==
    (call.op \in AmbientOps /\ call.sources # << >>) =>
        /\ Voice.role = "voice"
        /\ (currentStage \in 0 .. 6 => Voice.freq \in Range(scales[currentStage + 1]))
        /\ (currentStage >= 7 => Voice.freq \in Range(scales[1]))

\* An ambient event at a stage past the end of the scale table.
C1_Witness ==
    /\ call.op = "timer"
    /\ call.sources # << >>
    /\ currentStage = 7
    /\ Voice.freq \in Range(scales[1])

\* C2: while the volume of a channel is 0, its trigger creates no oscillator:
\* scheduleNextNote (run by init or by the timer) for ambient, playSpawn for
\* spawn, playEat for eat; whatever the other two volumes are.
C2_ZeroVolumeIsSilent ==
    /\ (call.op \in ScheduleOps /\ volumes["ambient"] = Num(0)) => call.sources = << >>
    /\ (call.op = "playSpawn" /\ volumes["spawn"] = Num(0)) => call.sources = << >>
    /\ (call.op = "playEat" /\ volumes["eat"] = Num(0)) => call.sources = << >>

\* A timer firing with a context, the ambient volume 0 and the others audible.
C2_Witness ==
    /\ ctx
    /\ call.op = "timer"
    /\ volumes["ambient"] = Num(0)
    /\ volumes["spawn"] = Num(150)
    /\ volumes["eat"] = Num(50)
    /\ call.sources = << >>

\* C3: every channel volume is a number within [0, 1].
C3_VolumesInUnitRange ==
    \A c \in Channels : ~volumes[c].nan /\ volumes[c].v >= 0 /\ volumes[c].v <= 100

\* C4: without a WebGL context, render and resize return without raising an
\* error and make no graphics call.
C4_NoGlIsHarmless ==
    (~gl /\ glCall.op \in {"render", "resize"}) =>
        (~glCall.threw /\ glCall.calls = << >>)
\* C5: while there is no audio context, playSpawn, playEat, playDescent and
\* triggerAmbientSound return early (no oscillator, no timeout, no error, and
\* volumes, currentStage, isInitialized, isPlaying unchanged), and setStage
\* changes only currentStage.
C5_NoContextReturnsEarly ==
    [][ ~ctx =>
          /\ (call'.op \in {"playSpawn", "playEat", "playDescent", "triggerAmbientSound"} =>
                /\ call'.sources = << >>
                /\ call'.timeouts = {}
                /\ ~call'.threw
                /\ UNCHANGED <<volumes, currentStage, isInitialized, isPlaying,
                               ctx, contexts, timers, timerID, delayTime>>)
          /\ (call'.op = "setStage" =>
                /\ call'.sources = << >>
                /\ call'.timeouts = {}
                /\ ~call'.threw
                /\ UNCHANGED <<volumes, isInitialized, isPlaying, ctx, masterGain,
                               reverbNode, delayNode, delayTime, contexts, timers,
                               timerID>>) ]_vars

\* playDescent() was called without an audio context, at a stage set by setStage.
C5_Witness ==
    /\ ~ctx
    /\ call.op = "playDescent"
    /\ call.sources = << >>
    /\ currentStage = 3

\* C6: after resize(), the overlay canvas has the window's inner width and
\* height, and the viewport of the WebGL context (when there is one) has the same.
C6_ResizeMatchesWindow ==
    glCall.op = "resize" =>
        /\ glCanvas.width = window.width
        /\ glCanvas.height = window.height
        /\ (gl => viewport = {[width |-> window.width, height |-> window.height]})

\* resize() after the window changed from the size the canvas had.
C6_Witness ==
    /\ gl
    /\ glCall.op = "resize"
    /\ glCall.calls = <<"viewport">>
    /\ uniforms # NoUniforms
    /\ uniforms[1].u_resolution = [width |-> 320, height |-> 240]
    /\ glCanvas = [width |-> 800, height |-> 600]
    /\ viewport = {[width |-> 800, height |-> 600]}

\* C7: at most one ambient timeout is pending and at most one audio context
\* has been built, and init() on an initialized engine changes no state.
C7_SingleTimerSingleContext ==
    /\ [](timers <= 1 /\ contexts <= 1)
    /\ [][ (isInitialized /\ call'.op = "init") =>
             /\ call'.sources = << >>
             /\ call'.timeouts = {}
             /\ UNCHANGED <<audioSupported, ctx, masterGain, reverbNode, delayNode,
                            delayTime, isInitialized, isPlaying, currentStage,
                            timerID, volumes, contexts, timers>> ]_vars

\* init() was called again on an initialized engine.
C7_Witness ==
    /\ isInitialized
    /\ call.op = "init"
    /\ call.timeouts = {}
    /\ timers = 1
    /\ contexts = 1

Peaks == [i \in 1 .. Len(call.sources) |-> call.sources[i].peak]

\* C9: with an audio context, playDescent starts two oscillators with peak
\* gains 1.0 and 0.3 whatever the three volumes are, and leaves volumes and
\* currentStage unchanged.
C9_DescentIgnoresVolumes ==
    [][ call'.op = "playDescent" =>
          /\ UNCHANGED <<volumes, currentStage>>
          /\ (ctx => /\ Len(call'.sources) = 2
                     /\ call'.sources[1].peak = 10000
                     /\ call'.sources[2].peak = 3000
                     /\ call'.sources[1].started
                     /\ call'.sources[2].started
                     /\ ~call'.threw) ]_vars

\* playDescent() with a context and all three volumes 0.
C9_Witness ==
    /\ ctx
    /\ call.op = "playDescent"
    /\ \A c \in Channels : volumes[c] = Num(0)
    /\ Peaks = <<10000, 3000>>

\* C10: the delay given to the ambient timer lies between
\* minTime = max(200, 2000 - 300 s) and maxTime = 4000 - 500 s, with
\* minTime <= maxTime, so it is never below 200 ms.
C10_DelayWithinBounds ==
    (call.op \in ScheduleOps /\ call.timeouts # {}) =>
        LET lo == IF 2000 - 300 * currentStage > 200 THEN 2000 - 300 * currentStage ELSE 200
            hi == 4000 - 500 * currentStage
        IN  /\ lo <= hi
            /\ \A d \in call.timeouts : d >= lo /\ d <= hi /\ d >= 200

====
